---- MODULE Spec2Model ----
(***************************************************************************)
(* Model of the theo research assistant (src/app.py and src/agents):       *)
(* the per-session workflow driven by the chat framework's callbacks, and  *)
(* the masking, research and reasoning delegates it calls.                 *)
(*                                                                         *)
(* Texts are sequences of tokens (words and placeholders such as           *)
(* "[PERSON_1]").  A Python dict is a sequence of <<key, value>> pairs in  *)
(* insertion order.  Every handler runs to completion as one step.         *)
(*                                                                         *)
(* The chat framework delivers an action callback only for a button on     *)
(* display; the model counts the buttons of each action name.              *)
(***************************************************************************)
EXTENDS Integers, Sequences, FiniteSets, TLC

\* ------------------------------------------------------------------ bounds
\* Most buttons of one action name counted as on display at a time; a
\* further button of that name is not counted.
MaxButtons == 1

\* --------------------------------------------------------------- constants
\* Python's None: a value that is no text (no text holds this token).
None == <<"<None>">>

MODE_INTERNAL == "internal"
MODE_EXTERNAL == "external"

\* ResearchAgent.__init__: the model when PERPLEXITY_MODEL is not set.
EnvResearchModel == "perplexity/sonar-pro-search"

\* The values of the "research_model" select of the settings panel.
ResearchModelValues ==
    {"perplexity/sonar-pro", "perplexity/sonar-reasoning-pro"}

\* The value a user who leaves the select alone sends with the settings.
SelectedModels == {"perplexity/sonar-pro"}

\* The place of research_agent.model in the record of a session at rest:
\* the attribute belongs to the process, not to the session.
OfProcess == "<research_agent.model>"

\* Confidence values in percent.
DefaultEntityConfidence == 90
DefaultOverallConfidence == 90
RecoveryEntityConfidence == 80
RecoveryOverallConfidence == 70
FallbackConfidence == 0

\* The separator handle_message puts between the message and its files.
FileSeparator == "--- Dateiinhalt ---"

\* The token of a Markdown code fence (three backquotes).
Fence == "<fence>"

\* The names of the action buttons the handlers display.
ActionNames ==
    {"switch_to_external", "new_query", "approve", "edit", "cancel",
     "generate_requirements"}

\* -------------------------------------------------------------- inputs

\* An attached text file.
TextFile ==
    [name |-> "notiz.txt", path |-> TRUE, mime_text |-> TRUE,
     readable |-> TRUE, content |-> <<"Anhang">>]

\* The messages a user sends: text (message.content) and attachments
\* (message.elements).
Messages ==
    { [content |-> <<>>, elements |-> <<>>],
      [content |-> <<"Hans", "fragt">>, elements |-> <<TextFile>>] }

\* ---------------------------------------------------------- dict helpers
RECURSIVE DictHas(_, _)
DictHas(d, k) ==
    IF d = <<>> THEN FALSE
    ELSE IF Head(d)[1] = k THEN TRUE ELSE DictHas(Tail(d), k)

RECURSIVE DictGet(_, _, _)
DictGet(d, k, default) ==
    IF d = <<>> THEN default
    ELSE IF Head(d)[1] = k THEN Head(d)[2] ELSE DictGet(Tail(d), k, default)

\* d[k] = v: an existing key keeps its position, a new key goes last.
DictSet(d, k, v) ==
    IF DictHas(d, k)
    THEN [i \in 1..Len(d) |-> IF d[i][1] = k THEN <<k, v>> ELSE d[i]]
    ELSE Append(d, <<k, v>>)

\* str.replace(key, value) where key is one token.
RECURSIVE Replace(_, _, _)
Replace(text, key, value) ==
    IF text = <<>> THEN <<>>
    ELSE IF Head(text) = key
         THEN value \o Replace(Tail(text), key, value)
         ELSE <<Head(text)>> \o Replace(Tail(text), key, value)

\* ------------------------------------------------- masking_agent.py
\* A key an entity of the payload does not carry ("confidence" is optional).
NoConfidence == -1

\* What MaskingResult holds when analyze_and_mask has returned nothing.
NoResult ==
    [original_text |-> None, masked_text |-> None, detected_entities |-> <<>>,
     mask_mapping |-> <<>>, confidence |-> 0]

MaskingResult(text, masked, entities, mapping, conf) ==
    [original_text |-> text, masked_text |-> masked,
     detected_entities |-> entities, mask_mapping |-> mapping,
     confidence |-> conf]

\* The placeholder-shaped tokens, with what the pattern \[([A-Z_]+)_(\d+)\]
\* captures in each and the sentinel '<category.lower()_num>' built from it.
PlaceholderTable ==
    { [token |-> "[PERSON_1]", category |-> "PERSON", num |-> "1",
       sentinel |-> "<person_1>"],
      [token |-> "[PERSON_2]", category |-> "PERSON", num |-> "2",
       sentinel |-> "<person_2>"],
      [token |-> "[EMAIL_1]", category |-> "EMAIL", num |-> "1",
       sentinel |-> "<email_1>"] }

IsPlaceholder(tok) == \E p \in PlaceholderTable : p.token = tok

PlaceholderInfo(tok) == CHOOSE p \in PlaceholderTable : p.token = tok

\* re.findall(entity_pattern, extracted_masked): the matches, left to right.
RECURSIVE FindPlaceholders(_)
FindPlaceholders(text) ==
    IF text = <<>> THEN <<>>
    ELSE IF IsPlaceholder(Head(text))
         THEN <<PlaceholderInfo(Head(text))>> \o FindPlaceholders(Tail(text))
         ELSE FindPlaceholders(Tail(text))

\* Mutant of BuildFromEntities: the list of a category is started anew for
\* every entity (the test of line 199 left out).
RECURSIVE BuildFromEntitiesAnew(_, _)
BuildFromEntitiesAnew(entities, acc) ==
    IF entities = <<>> THEN acc
    ELSE LET entity == Head(entities)
         IN  BuildFromEntitiesAnew(Tail(entities),
               [mask_mapping |->
                  DictSet(acc.mask_mapping, entity.masked, entity.original),
                detected_entities |->
                  DictSet(acc.detected_entities, entity.category,
                    <<[original |-> entity.original,
                       masked |-> entity.masked,
                       confidence |->
                         IF entity.confidence = NoConfidence
                         THEN DefaultEntityConfidence
                         ELSE entity.confidence]>>)])

\* The loop over result_data["entities"] of the success path.
RECURSIVE BuildFromEntities(_, _)
BuildFromEntities(entities, acc) ==
    IF entities = <<>> THEN acc
    ELSE LET entity == Head(entities)
             mapping == DictSet(acc.mask_mapping, entity.masked, entity.original)
             category == entity.category
             d0 == IF DictHas(acc.detected_entities, category)
                   THEN acc.detected_entities
                   ELSE DictSet(acc.detected_entities, category, <<>>)
             d1 == DictSet(d0, category,
                     Append(DictGet(d0, category, <<>>),
                       [original |-> entity.original,
                        masked |-> entity.masked,
                        confidence |->
                          IF entity.confidence = NoConfidence
                          THEN DefaultEntityConfidence
                          ELSE entity.confidence]))
         IN  BuildFromEntities(Tail(entities),
               [mask_mapping |-> mapping, detected_entities |-> d1])

\* Mutant of BuildFromPlaceholders: a placeholder that is already listed is
\* listed again (the test of line 242 left out).
RECURSIVE BuildFromPlaceholdersAgain(_, _)
BuildFromPlaceholdersAgain(found, acc) ==
    IF found = <<>> THEN acc
    ELSE LET p == Head(found)
             listed == DictGet(acc.detected_entities, p.category, <<>>)
         IN  BuildFromPlaceholdersAgain(Tail(found),
               [mask_mapping |->
                  DictSet(acc.mask_mapping, p.token, <<p.sentinel>>),
                detected_entities |->
                  DictSet(acc.detected_entities, p.category,
                    Append(listed,
                      [original |-> <<p.sentinel>>, masked |-> p.token,
                       confidence |-> RecoveryEntityConfidence]))])

\* The loop over found_placeholders of the recovery path.
RECURSIVE BuildFromPlaceholders(_, _)
BuildFromPlaceholders(found, acc) ==
    IF found = <<>> THEN acc
    ELSE LET p == Head(found)
             d0 == IF DictHas(acc.detected_entities, p.category)
                   THEN acc.detected_entities
                   ELSE DictSet(acc.detected_entities, p.category, <<>>)
             listed == DictGet(d0, p.category, <<>>)
             known == \E i \in 1..Len(listed) : listed[i].masked = p.token
             d1 == IF known THEN d0
                   ELSE DictSet(d0, p.category,
                          Append(listed,
                            [original |-> <<p.sentinel>>,
                             masked |-> p.token,
                             confidence |-> RecoveryEntityConfidence]))
             mapping == IF known THEN acc.mask_mapping
                        ELSE DictSet(acc.mask_mapping, p.token, <<p.sentinel>>)
         IN  BuildFromPlaceholders(Tail(found),
               [mask_mapping |-> mapping, detected_entities |-> d1])

EmptyBuild == [mask_mapping |-> <<>>, detected_entities |-> <<>>]

\* Every entity of the payload carries "original", "masked" and "category".
EntitiesComplete(entities) ==
    \A i \in 1..Len(entities) : entities[i].complete

\* Mutant of recover: a parse failure is raised like any other error.
recover_raises(text, resp) == [raised |-> TRUE, result |-> NoResult]

\* Mutant of recover: the fallback result carries the default confidence.
recover_confident(text, resp) ==
    IF resp.salvage # None
    THEN LET built == BuildFromPlaceholders(FindPlaceholders(resp.salvage),
                                            EmptyBuild)
         IN  [raised |-> FALSE,
              result |-> MaskingResult(text, resp.salvage,
                built.detected_entities, built.mask_mapping,
                RecoveryOverallConfidence)]
    ELSE [raised |-> FALSE,
          result |-> MaskingResult(text, text, <<>>, <<>>,
                                   DefaultOverallConfidence)]

\* analyze_and_mask, lines 215-267: json.loads raised JSONDecodeError on
\* resp.  The outcome is [raised, result].
recover(text, resp) ==
    IF resp.salvage # None
    THEN LET built == BuildFromPlaceholders(FindPlaceholders(resp.salvage),
                                            EmptyBuild)
         IN  [raised |-> FALSE,
              result |-> MaskingResult(text, resp.salvage,
                built.detected_entities, built.mask_mapping,
                RecoveryOverallConfidence)]
    ELSE [raised |-> FALSE,
          result |-> MaskingResult(text, text, <<>>, <<>>, FallbackConfidence)]

\* MaskingAgent.analyze_and_mask(text) when the detection model answers resp:
\*   resp.completed   the upstream call returned a text
\*   resp.json_ok     json.loads accepts the (fence-stripped) text
\*   resp.data        the parsed payload: is_object, masked_text (None when
\*                    the key is absent), entities, overall_confidence
\*   resp.salvage     what the masked_text pattern extracts from the raw
\*                    text, unescaped (None when it does not match)
\* A key that the payload carries holds a value of the type the prompt asks
\* for (texts are strings, confidences numbers).
\* The outcome is [raised, result].
analyze_and_mask(text, resp) ==
    IF ~resp.completed
    THEN [raised |-> TRUE, result |-> NoResult]
    ELSE IF resp.json_ok
    THEN IF ~resp.data.is_object \/ ~EntitiesComplete(resp.data.entities)
         THEN [raised |-> TRUE, result |-> NoResult]
         ELSE LET built == BuildFromEntities(resp.data.entities, EmptyBuild)
              IN  [raised |-> FALSE,
                   result |-> MaskingResult(text,
                     IF resp.data.masked_text = None THEN text
                     ELSE resp.data.masked_text,
                     built.detected_entities, built.mask_mapping,
                     IF resp.data.overall_confidence = NoConfidence
                     THEN DefaultOverallConfidence
                     ELSE resp.data.overall_confidence)]
    ELSE recover(text, resp)

\* MaskingAgent.unmask_text and the loop of process_and_respond: replace
\* every key of the mapping by its value, in the mapping's order.
RECURSIVE unmask_text(_, _)
unmask_text(masked_text, mask_mapping) ==
    IF mask_mapping = <<>> THEN masked_text
    ELSE unmask_text(
           Replace(masked_text, Head(mask_mapping)[1], Head(mask_mapping)[2]),
           Tail(mask_mapping))

\* ------------------------------------- reading the detection model's text
\* The token of a code fence with the language tag ("```json").
JsonFence == "<fence json>"

\* The text of a JSON payload is written as three parts: PayloadHead, the
\* text up to and with the opening quote of the value of "masked_text";
\* the tokens of that value; PayloadTail, the closing quote and the rest
\* (', "entities": [...], "overall_confidence": 0.92}').
PayloadHead == "<{masked_text:>"
PayloadTail == "<,entities:[Hans],overall_confidence:0.92}>"

\* The part of text before the first token of set S (all of it if none).
RECURSIVE BeforeFirst(_, _)
BeforeFirst(text, S) ==
    IF text = <<>> \/ Head(text) \in S THEN <<>>
    ELSE <<Head(text)>> \o BeforeFirst(Tail(text), S)

\* The part of text after the first token of set S (nothing if none).
RECURSIVE AfterFirst(_, _)
AfterFirst(text, S) ==
    IF text = <<>> THEN <<>>
    ELSE IF Head(text) \in S THEN Tail(text)
    ELSE AfterFirst(Tail(text), S)

\* analyze_and_mask, lines 185-188: the text between the first "```json"
\* and the next "```", else between the first "```" and the next, else all
\* of it.  A "```json" is also a "```".
strip_fence(result_text) ==
    IF \E i \in DOMAIN result_text : result_text[i] = JsonFence
    THEN BeforeFirst(AfterFirst(result_text, {JsonFence}),
                     {Fence, JsonFence})
    ELSE IF \E i \in DOMAIN result_text : result_text[i] = Fence
    THEN BeforeFirst(AfterFirst(result_text, {Fence}), {Fence})
    ELSE result_text

\* json.loads accepts a text: it is one whole payload.
IsJson(text) ==
    /\ Len(text) >= 2
    /\ text[1] = PayloadHead
    /\ text[Len(text)] = PayloadTail
    /\ \A i \in 2..(Len(text) - 1) : text[i] \notin {PayloadHead, PayloadTail}

\* re.search of line 224 on a text: what follows the first '"masked_text":
\* "' up to the next '", "entities"' or the end (None: no match).
salvage_masked_text(text) ==
    IF \E i \in DOMAIN text : text[i] = PayloadHead
    THEN BeforeFirst(AfterFirst(text, {PayloadHead}), {PayloadTail})
    ELSE <<"<None>">>

Payload(masked, entities, conf) ==
    [is_object |-> TRUE, masked_text |-> masked, entities |-> entities,
     overall_confidence |-> conf]

Entity(original, masked, category, conf) ==
    [original |-> original, masked |-> masked, category |-> category,
     confidence |-> conf, complete |-> TRUE]

JsonResponse(data) ==
    [completed |-> TRUE, json_ok |-> TRUE, data |-> data, salvage |-> None]

BrokenResponse(salvage) ==
    [completed |-> TRUE, json_ok |-> FALSE,
     data |-> Payload(None, <<>>, NoConfidence), salvage |-> salvage]

\* The upstream call itself fails (network, auth).
RespFail ==
    [completed |-> FALSE, json_ok |-> FALSE,
     data |-> Payload(None, <<>>, NoConfidence), salvage |-> None]

RespHans ==
    JsonResponse(Payload(<<"[PERSON_1]", "fragt">>,
      <<Entity(<<"Hans">>, "[PERSON_1]", "PERSON", 95)>>, 92))

\* A payload whose masked_text is the empty string.
RespEmptyMasked == JsonResponse(Payload(<<>>, <<>>, 92))

\* Truncated JSON from which the masked_text field can be extracted.
RespTruncated == BrokenResponse(<<"[EMAIL_1]", "fragt">>)

\* What PayloadTail holds.
TailEntities == <<Entity(<<"Hans">>, "[PERSON_1]", "PERSON", 95)>>
TailConfidence == 92

\* analyze_and_mask, lines 180-190 and 224-226: the text of a completed
\* answer, as the rest of the method sees it.
ReadResponse(raw) ==
    LET result_text == strip_fence(raw)
    IN  IF IsJson(result_text)
        THEN JsonResponse(Payload(SubSeq(result_text, 2, Len(result_text) - 1),
                                  TailEntities, TailConfidence))
        ELSE BrokenResponse(salvage_masked_text(result_text))

\* The text of the payload with the given masked_text.
PayloadText(masked) == <<PayloadHead>> \o masked \o <<PayloadTail>>

\* The masked_text of a payload: of a plain query, and of a query with an
\* ingested text attachment (process_files puts its content between
\* fences).
RawMaskedTexts ==
    { <<"[PERSON_1]", "fragt">>,
      <<"[PERSON_1]", "fragt", Fence, "Anhang", Fence>> }

\* The ways the detection model writes a payload: bare, in a fence, in a
\* fence with the json tag, with a sentence before the fence.
Wrappings(masked) ==
    { PayloadText(masked),
      <<Fence>> \o PayloadText(masked) \o <<Fence>>,
      <<JsonFence>> \o PayloadText(masked) \o <<Fence>>,
      <<"Hier", JsonFence>> \o PayloadText(masked) \o <<Fence>> }

\* The texts of the detection model: payloads, and one cut off in the
\* masked_text.
RawResponses ==
    UNION { Wrappings(masked) : masked \in RawMaskedTexts }
    \cup { <<JsonFence, PayloadHead, "[PERSON_1]">> }

\* The answers the detection model gives in the workflow.
MaskingResponses == {RespFail, RespHans, RespEmptyMasked, RespTruncated}

\* ------------------------------------- research_agent.py, reasoning_agent.py
\* What the other models answer: the call fails, or returns a text.
DelegateFail == [completed |-> FALSE, content |-> None]

ResearchResponses ==
    {DelegateFail,
     [completed |-> TRUE, content |-> <<"[PERSON_1]", "ist", "bekannt">>]}

ReasoningResponses ==
    {DelegateFail,
     [completed |-> TRUE,
      content |-> <<"[PERSON_1]", "schreibt", "[EMAIL_1]">>]}

InternalResponses ==
    {DelegateFail, [completed |-> TRUE, content |-> <<"Antwort">>]}

\* ResearchAgent.research(query): [raised, response].
research(query, resp) ==
    IF ~resp.completed
    THEN [raised |-> TRUE, response |-> None]
    ELSE [raised |-> FALSE, response |-> resp.content]

\* Mutant of process_and_respond: the answer is returned as generated
\* (lines 115-118 left out).
process_and_respond_without_restore(query, research_response, mapping, resp) ==
    IF ~resp.completed
    THEN [raised |-> TRUE, final_response |-> None]
    ELSE [raised |-> FALSE, final_response |-> resp.content]

\* ReasoningAgent.process_and_respond: [raised, final_response].
process_and_respond(original_query, research_response, mask_mapping, resp) ==
    IF ~resp.completed
    THEN [raised |-> TRUE, final_response |-> None]
    ELSE [raised |-> FALSE,
          final_response |->
            IF mask_mapping # <<>>
            THEN unmask_text(resp.content, mask_mapping)
            ELSE resp.content]

\* ReasoningAgent.generate_requirements and InternalAgent.respond:
\* [raised, response].
generate_requirements(research_response, context, resp) ==
    IF ~resp.completed
    THEN [raised |-> TRUE, response |-> None]
    ELSE [raised |-> FALSE, response |-> resp.content]

respond(query, resp) ==
    IF ~resp.completed
    THEN [raised |-> TRUE, response |-> None]
    ELSE [raised |-> FALSE, response |-> resp.content]

\* ------------------------------------------------------------ app.py
VARIABLES
    workflow_state,     \* cl.user_session "workflow_state"
    pending_query,      \* cl.user_session "pending_query"
    mask_mapping,       \* cl.user_session "mask_mapping"
    original_query,     \* cl.user_session "original_query"
    mode,               \* cl.user_session "mode"
    detected_entities,  \* cl.user_session "detected_entities" (unset: {})
    buttons,            \* action name -> number of its buttons on display
    handler,            \* the callback that ran last
    calls,              \* the delegate calls that callback made, in order
    last_result,        \* the MaskingResult analyze_and_mask returned last
    final_response,     \* the final answer that callback sent (None: none)
    notice,             \* the analysis or error notice that callback sent
    request,            \* a direct call of an agent method: its arguments
    outcome,            \* what analyze_and_mask did with the request
    outputs,            \* the texts the restoring methods returned, in order
    research_model,     \* research_agent.model, one for the whole process
    other,              \* the session of a second user of the process
    actor,              \* the session that got the last event
    tasks               \* the handlers that wait at an await, oldest first

vars ==
    <<workflow_state, pending_query, mask_mapping, original_query, mode,
      detected_entities, buttons, handler, calls, last_result,
      final_response, notice, request, outcome, outputs, research_model,
      other, actor, tasks>>

\* One delegate call as the handlers make it.
Call(fn, query, research_response, mapping, raised) ==
    [fn |-> fn, query |-> query, research_response |-> research_response,
     mask_mapping |-> mapping, raised |-> raised, model |-> "-"]

\* Python's truth value of a session text: None and "" are false.
Truthy(text) == text # None /\ text # <<>>

\* cl.Message(actions=[...]).send(): one more button of each name.
Show(b, names) ==
    [n \in ActionNames |->
       IF n \in names /\ b[n] < MaxButtons THEN b[n] + 1 ELSE b[n]]

\* action.remove(): the clicked button disappears.
Remove(b, name) == [b EXCEPT ![name] = @ - 1]

\* The session as a handler finds it.
Session ==
    [workflow_state |-> workflow_state, pending_query |-> pending_query,
     mask_mapping |-> mask_mapping, original_query |-> original_query,
     mode |-> mode, detected_entities |-> detected_entities,
     buttons |-> buttons, calls |-> <<>>, last_result |-> last_result,
     final_response |-> None, notice |-> "none",
     research_agent_model |-> research_model]

\* The session, and the agents of the process, as a handler leaves them.
CommitSession(s, name) ==
    /\ workflow_state' = s.workflow_state
    /\ pending_query' = s.pending_query
    /\ mask_mapping' = s.mask_mapping
    /\ original_query' = s.original_query
    /\ mode' = s.mode
    /\ detected_entities' = s.detected_entities
    /\ buttons' = s.buttons
    /\ calls' = s.calls
    /\ last_result' = s.last_result
    /\ final_response' = s.final_response
    /\ notice' = s.notice
    /\ handler' = name
    /\ research_model' = s.research_agent_model

\* The same when the process has one session with events.
Commit(s, name) ==
    /\ CommitSession(s, name)
    /\ UNCHANGED <<request, outcome, outputs, other, actor, tasks>>

\* process_files(elements): the text of the attachments.
RECURSIVE process_files(_)
process_files(elements) ==
    IF elements = <<>> THEN <<>>
    ELSE LET element == Head(elements)
             part == IF ~element.path THEN <<>>
                     ELSE IF ~element.mime_text
                     THEN <<element.name, "[Datei hochgeladen]">>
                     ELSE IF ~element.readable
                     THEN <<element.name, "[Fehler beim Lesen]">>
                     ELSE <<element.name, Fence>> \o element.content
                          \o <<Fence>>
         IN  part \o process_files(Tail(elements))

\* Mutant of store_result: the mapping is not stored (line 214 left out).
store_result_without_mapping(s, result) ==
    [s EXCEPT !.pending_query = result.masked_text,
              !.detected_entities = result.detected_entities]

\* d.update(e) on dicts.
RECURSIVE DictUpdate(_, _)
DictUpdate(d, e) ==
    IF e = <<>> THEN d
    ELSE DictUpdate(DictSet(d, Head(e)[1], Head(e)[2]), Tail(e))

\* Mutant of store_result: the new mapping is merged into the stored one.
store_result_merged(s, result) ==
    [s EXCEPT !.pending_query = result.masked_text,
              !.mask_mapping = DictUpdate(@, result.mask_mapping),
              !.detected_entities = result.detected_entities]

\* start_masking_workflow, lines 212-215: store the result in the session.
store_result(s, result) ==
    [s EXCEPT !.pending_query = result.masked_text,
              !.mask_mapping = result.mask_mapping,
              !.detected_entities = result.detected_entities]

\* Mutant of masking_failed: the raw query is offered for approval instead.
masking_failed_keeps_raw(s, user_query) ==
    [s EXCEPT !.pending_query = user_query]

\* start_masking_workflow, lines 219-222: analyze_and_mask raised; report
\* the error and return.
masking_failed(s, user_query) == s

\* A query of more characters than this with no detection gets a warning.
WarningThreshold == 500

\* Tokens that stand for long runs of characters, with their lengths.
BlockChars == [x499 |-> 499, x500 |-> 500]

\* len() of a token.
TokenChars(tok) ==
    IF tok \in DOMAIN BlockChars THEN BlockChars[tok] ELSE Len(tok)

\* len() of a text: its tokens, joined by one character each.
RECURSIVE CharLen(_)
CharLen(text) ==
    IF text = <<>> THEN 0
    ELSE IF Len(text) = 1 THEN TokenChars(Head(text))
    ELSE TokenChars(Head(text)) + 1 + CharLen(Tail(text))

\* Mutant of show_analysis: a query of exactly the threshold is warned of.
show_analysis_from_threshold(s, user_query) ==
    [s EXCEPT !.notice =
        IF s.detected_entities # <<>> THEN "summary"
        ELSE IF CharLen(user_query) >= WarningThreshold THEN "warning"
        ELSE "none_found"]

\* start_masking_workflow, lines 227-275: show what was detected, or that
\* nothing was.
show_analysis(s, user_query) ==
    [s EXCEPT !.notice =
        IF s.detected_entities # <<>> THEN "summary"
        ELSE IF CharLen(user_query) > WarningThreshold THEN "warning"
        ELSE "none_found"]

\* Mutant of ask_for_approval: the state is not set (line 278 left out).
ask_for_approval_without_state(s) ==
    [s EXCEPT !.buttons = Show(@, {"approve", "edit", "cancel"})]

\* start_masking_workflow, lines 277-301: ask for approval.
ask_for_approval(s) ==
    [s EXCEPT !.workflow_state = "awaiting_approval",
              !.buttons = Show(@, {"approve", "edit", "cancel"})]

\* start_masking_workflow(user_query), the detection model answering resp.
start_masking_workflow(s, user_query, resp) ==
    LET s1 == [s EXCEPT !.original_query = user_query]
        out == analyze_and_mask(user_query, resp)
        call == Call("analyze_and_mask", user_query, None, <<>>, out.raised)
        s2 == [s1 EXCEPT !.calls = Append(@, call)]
    IN  IF out.raised
        THEN masking_failed(s2, user_query)
        ELSE ask_for_approval(
               show_analysis(
                 store_result([s2 EXCEPT !.last_result = out.result],
                              out.result),
                 user_query))

\* handle_internal_query(user_query), the internal model answering resp.
handle_internal_query(s, user_query, resp) ==
    LET s1 == [s EXCEPT !.original_query = user_query]
        out == respond(user_query, resp)
        call == Call("respond", user_query, None, <<>>, out.raised)
    IN  IF out.raised
        THEN [s1 EXCEPT !.calls = Append(@, call)]
        ELSE [s1 EXCEPT
                !.calls = Append(@, call),
                !.buttons = Show(@, {"switch_to_external", "new_query"})]

\* handle_message, lines 116-123: the message with the text of its files.
UserInput(message) ==
    LET files_content == IF message.elements # <<>>
                         THEN process_files(message.elements)
                         ELSE <<>>
    IN  IF files_content # <<>>
        THEN message.content \o <<FileSeparator>> \o files_content
        ELSE message.content

\* handle_message(message): resp is the answer of the model that is asked,
\* the internal model in internal mode and the detection model otherwise.
handle_message(s, message, resp) ==
    LET user_input == UserInput(message)
    IN  IF s.mode = MODE_INTERNAL
        THEN handle_internal_query(s, user_input, resp)
        ELSE start_masking_workflow(
               IF s.workflow_state # "idle"
               THEN [s EXCEPT !.workflow_state = "idle"] ELSE s,
               user_input, resp)

\* on_settings_update(settings).
on_settings_update(s, external_mode, model) ==
    [s EXCEPT !.mode = IF external_mode THEN MODE_EXTERNAL ELSE MODE_INTERNAL,
              !.research_agent_model = model]

\* on_switch_to_external(action).
on_switch_to_external(s, mask_resp) ==
    LET s0 == [s EXCEPT !.buttons = Remove(@, "switch_to_external")]
    IN  IF ~Truthy(s0.original_query)
        THEN s0
        ELSE start_masking_workflow([s0 EXCEPT !.mode = MODE_EXTERNAL],
                                    s0.original_query, mask_resp)

\* on_approve, lines 313-315: nothing is pending; say so and return.
nothing_pending(s) == [s EXCEPT !.notice = "no_pending"]

\* Mutant of on_approve: with nothing pending the session is reset as well.
on_approve_resets_always(s, research_resp, reasoning_resp) ==
    LET s0 == [s EXCEPT !.buttons = Remove(@, "approve")]
        masked_query == s0.pending_query
        r1 == research(masked_query, research_resp)
        c1 == [Call("research", masked_query, None, <<>>, r1.raised)
                 EXCEPT !.model = s0.research_agent_model]
        r2 == process_and_respond(s0.original_query, r1.response,
                                  s0.mask_mapping, reasoning_resp)
        c2 == Call("process_and_respond", s0.original_query, r1.response,
                   s0.mask_mapping, r2.raised)
    IN  IF ~Truthy(masked_query)
        THEN [nothing_pending(s0) EXCEPT !.workflow_state = "idle",
                                         !.pending_query = None]
        ELSE IF r1.raised
        THEN [s0 EXCEPT !.calls = Append(@, c1), !.workflow_state = "idle"]
        ELSE IF r2.raised
        THEN [s0 EXCEPT !.calls = @ \o <<c1, c2>>, !.workflow_state = "idle"]
        ELSE [s0 EXCEPT
                !.calls = @ \o <<c1, c2>>,
                !.workflow_state = "idle",
                !.pending_query = None,
                !.final_response = r2.final_response,
                !.buttons = Show(@, {"generate_requirements", "new_query"})]

\* on_approve(action).
on_approve(s, research_resp, reasoning_resp) ==
    LET s0 == [s EXCEPT !.buttons = Remove(@, "approve")]
        masked_query == s0.pending_query
        r1 == research(masked_query, research_resp)
        c1 == [Call("research", masked_query, None, <<>>, r1.raised)
                 EXCEPT !.model = s0.research_agent_model]
        r2 == process_and_respond(s0.original_query, r1.response,
                                  s0.mask_mapping, reasoning_resp)
        c2 == Call("process_and_respond", s0.original_query, r1.response,
                   s0.mask_mapping, r2.raised)
    IN  IF ~Truthy(masked_query)
        THEN nothing_pending(s0)
        ELSE IF r1.raised
        THEN [s0 EXCEPT !.calls = Append(@, c1), !.workflow_state = "idle"]
        ELSE IF r2.raised
        THEN [s0 EXCEPT !.calls = @ \o <<c1, c2>>, !.workflow_state = "idle"]
        ELSE [s0 EXCEPT
                !.calls = @ \o <<c1, c2>>,
                !.workflow_state = "idle",
                !.pending_query = None,
                !.final_response = r2.final_response,
                !.buttons = Show(@, {"generate_requirements", "new_query"})]

\* on_edit(action).
on_edit(s) ==
    [s EXCEPT !.buttons = Remove(@, "edit"), !.workflow_state = "editing"]

\* Mutant of on_cancel: the state is kept (line 417 left out).
on_cancel_keeps_state(s) ==
    [s EXCEPT !.buttons = Remove(@, "cancel"), !.pending_query = None]

\* Mutant of on_cancel: the pending query is kept (line 418 left out).
on_cancel_keeps_pending(s) ==
    [s EXCEPT !.buttons = Remove(@, "cancel"), !.workflow_state = "idle"]

\* on_cancel(action).
on_cancel(s) ==
    [s EXCEPT !.buttons = Remove(@, "cancel"),
              !.workflow_state = "idle", !.pending_query = None]

\* on_generate_requirements(action).
on_generate_requirements(s, resp) ==
    LET s0 == [s EXCEPT !.buttons = Remove(@, "generate_requirements")]
        context == IF s0.original_query = None THEN <<>>
                   ELSE s0.original_query
        out == generate_requirements(
                 <<"(Basierend auf der letzten Recherche)">>, context, resp)
        call == Call("generate_requirements", context,
                     <<"(Basierend auf der letzten Recherche)">>, <<>>,
                     out.raised)
    IN  [s0 EXCEPT !.calls = Append(@, call)]

\* on_new_query(action).
on_new_query(s) ==
    [s EXCEPT !.buttons = Remove(@, "new_query"),
              !.workflow_state = "idle", !.pending_query = None]

\* stop().
stop(s) == [s EXCEPT !.workflow_state = "idle"]

\* start(): the session after on_chat_start.
SessionStart ==
    /\ workflow_state = "idle"
    /\ pending_query = None
    /\ mask_mapping = <<>>
    /\ original_query = None
    /\ mode = MODE_INTERNAL
    /\ detected_entities = <<>>
    /\ buttons = [n \in ActionNames |-> 0]
    /\ handler = "start"
    /\ calls = <<>>
    /\ last_result = NoResult
    /\ final_response = None
    /\ notice = "none"

\* The session of the second user after on_chat_start.
StartedSession ==
    [workflow_state |-> "idle", pending_query |-> None, mask_mapping |-> <<>>,
     original_query |-> None, mode |-> MODE_INTERNAL,
     detected_entities |-> <<>>, buttons |-> [n \in ActionNames |-> 0],
     calls |-> <<>>, last_result |-> NoResult, final_response |-> None,
     notice |-> "none", research_agent_model |-> OfProcess]

\* The module is imported: the agents exist, two users have connected.
ProcessStart ==
    /\ research_model = EnvResearchModel
    /\ other = StartedSession
    /\ actor = "A"
    /\ tasks = <<>>

\* No agent method is called directly.
NoRequest ==
    [fn |-> "none", text |-> None, resp |-> RespFail, mapping |-> <<>>,
     raw |-> <<>>]

NoOutcome == [returned |-> FALSE, raised |-> FALSE, result |-> NoResult]

Init ==
    /\ SessionStart
    /\ ProcessStart
    /\ request = NoRequest
    /\ outcome = NoOutcome
    /\ outputs = <<>>

\* ------------------- the events the chat framework delivers to a session
MessageStep(message) ==
    \E resp \in IF mode = MODE_INTERNAL THEN InternalResponses
                 ELSE MaskingResponses :
        Commit(handle_message(Session, message, resp), "handle_message")

Message == \E message \in Messages : MessageStep(message)

SettingsUpdate ==
    \E external_mode \in BOOLEAN, model \in SelectedModels :
        Commit(on_settings_update(Session, external_mode, model),
               "on_settings_update")

ClickSwitchToExternal ==
    /\ buttons["switch_to_external"] > 0
    /\ \E mask_resp \in MaskingResponses :
        Commit(on_switch_to_external(Session, mask_resp),
               "on_switch_to_external")

ClickApprove ==
    /\ buttons["approve"] > 0
    /\ \E research_resp \in ResearchResponses,
          reasoning_resp \in ReasoningResponses :
        Commit(on_approve(Session, research_resp, reasoning_resp),
               "on_approve")

ClickEdit ==
    /\ buttons["edit"] > 0
    /\ Commit(on_edit(Session), "on_edit")

ClickCancel ==
    /\ buttons["cancel"] > 0
    /\ Commit(on_cancel(Session), "on_cancel")

ClickGenerateRequirements ==
    /\ buttons["generate_requirements"] > 0
    /\ \E resp \in ReasoningResponses :
        Commit(on_generate_requirements(Session, resp),
               "on_generate_requirements")

ClickNewQuery ==
    /\ buttons["new_query"] > 0
    /\ Commit(on_new_query(Session), "on_new_query")

Stop == Commit(stop(Session), "stop")

Next ==
    \/ Message
    \/ SettingsUpdate
    \/ ClickSwitchToExternal
    \/ ClickApprove
    \/ ClickEdit
    \/ ClickCancel
    \/ ClickGenerateRequirements
    \/ ClickNewQuery
    \/ Stop

Spec == Init /\ [][Next]_vars

\* ------------------------------------- the agent methods called directly
\* Most entities a detection payload lists.
MaxEntities == 2

\* Most times unmask_text is applied in a row to its own output.
MaxApplications == 2

\* The texts handed to analyze_and_mask.
AgentTexts ==
    { <<"Hans", "fragt">>, <<"Hans", "fragt", "Hans">>,
      <<"Hans", "fragt", "Eva">> }

\* An entity of the payload that lacks "original", "masked" or "category".
IncompleteEntity ==
    [original |-> <<"Hans">>, masked |-> "[PERSON_1]", category |-> "PERSON",
     confidence |-> NoConfidence, complete |-> FALSE]

\* The entities a payload lists: well-formed ones, one whose "masked" is no
\* placeholder, one whose "original" is itself a placeholder, one that
\* lacks a key.
EntityPool ==
    { Entity(<<"Hans">>, "[PERSON_1]", "PERSON", 95),
      Entity(<<"Eva">>, "[PERSON_1]", "PERSON", NoConfidence),
      Entity(<<"Eva">>, "[PERSON_2]", "PERSON", 95),
      Entity(<<"Hans">>, "[person_1]", "PERSON", 95),
      Entity(<<"[PERSON_2]">>, "[PERSON_1]", "PERSON", 95),
      Entity(<<"hans@firma.de">>, "[EMAIL_1]", "EMAIL", NoConfidence),
      IncompleteEntity }

\* The sequences of at most n elements of set S.
SeqsUpTo(S, n) == UNION { [1..k -> S] : k \in 0..n }

\* The "masked_text" of a payload (None: the key is absent).
PayloadMaskedTexts ==
    { None, <<"[PERSON_1]", "fragt">>, <<"[PERSON_1]", "fragt", "[PERSON_1]">>,
      <<"[PERSON_1]", "fragt", "[PERSON_2]">> }

\* JSON that is not an object (a list, a string, a number).
RespNotObject ==
    [completed |-> TRUE, json_ok |-> TRUE,
     data |-> [is_object |-> FALSE, masked_text |-> None, entities |-> <<>>,
               overall_confidence |-> NoConfidence],
     salvage |-> None]

\* Text that is not JSON and holds no masked_text field.
RespGarbage == BrokenResponse(None)

\* Truncated JSON whose masked_text repeats a placeholder.
RespTruncatedTwice ==
    BrokenResponse(<<"[PERSON_1]", "fragt", "[PERSON_1]", "[EMAIL_1]">>)

\* What the detection model answers to a direct call.
DetectionResponses ==
    { JsonResponse(Payload(masked, entities, conf)) :
        masked \in PayloadMaskedTexts,
        entities \in SeqsUpTo(EntityPool, MaxEntities),
        conf \in {NoConfidence, 60} }
    \cup {RespFail, RespNotObject, RespGarbage, RespTruncated,
          RespTruncatedTwice, RespEmptyMasked}

\* Most entries of a mapping handed to unmask_text or process_and_respond.
MaxMappingEntries == 2

\* Most tokens of a text handed to them.
MaxTextLen == 2

\* The values of such a mapping: a name, a placeholder, a text that holds
\* a placeholder.
MappingValues ==
    { <<"Hans">>, <<"[PERSON_1]">>, <<"[EMAIL_1]">>, <<"[PERSON_1]", "Hans">> }

\* The mappings: dicts, so no key twice.
AgentMappings ==
    { m \in SeqsUpTo({"[PERSON_1]", "[PERSON_2]"} \X MappingValues,
                     MaxMappingEntries) :
        \A i, j \in DOMAIN m : i # j => m[i][1] # m[j][1] }

\* The masked texts and generated answers.
RestoreTexts ==
    SeqsUpTo({"[PERSON_1]", "[PERSON_2]", "fragt"}, MaxTextLen)

\* The queries handed to start_masking_workflow: short ones, one of
\* exactly 500 characters, one of 501 and one of 499.
WorkflowTexts ==
    { <<"Hans", "fragt">>, <<"x500">>, <<"x499", "x">>, <<"x499">> }

\* A payload that detects nothing and lacks the masked_text key.
RespNothing == JsonResponse(Payload(None, <<>>, NoConfidence))

\* What the detection model answers to them.
WorkflowResponses ==
    {RespFail, RespHans, RespGarbage, RespEmptyMasked, RespNothing}

session_vars ==
    <<workflow_state, pending_query, mask_mapping, original_query, mode,
      detected_entities, buttons, handler, calls, last_result,
      final_response, notice, research_model, other, actor, tasks>>

\* A test harness picks a method of an agent and its arguments.
AgentInit ==
    /\ SessionStart
    /\ ProcessStart
    /\ outcome = NoOutcome
    /\ outputs = <<>>
    /\ \/ \E text \in AgentTexts, resp \in DetectionResponses :
            request = [fn |-> "analyze_and_mask", text |-> text,
                       resp |-> resp, mapping |-> <<>>, raw |-> <<>>]
       \/ \E text \in AgentTexts, raw \in RawResponses :
            request = [fn |-> "analyze_and_mask", text |-> text,
                       resp |-> ReadResponse(raw), mapping |-> <<>>,
                       raw |-> raw]
       \/ \E text \in WorkflowTexts, resp \in WorkflowResponses :
            request = [fn |-> "start_masking_workflow", text |-> text,
                       resp |-> resp, mapping |-> <<>>, raw |-> <<>>]
       \/ \E fn \in {"unmask_text", "process_and_respond"},
              text \in RestoreTexts, mapping \in AgentMappings :
            request = [fn |-> fn, text |-> text, resp |-> RespFail,
                       mapping |-> mapping, raw |-> <<>>]

\* masking_agent.analyze_and_mask(request.text).
Analyze ==
    /\ request.fn = "analyze_and_mask"
    /\ outcome = NoOutcome
    /\ LET out == analyze_and_mask(request.text, request.resp)
       IN  outcome' = [returned |-> ~out.raised, raised |-> out.raised,
                       result |-> out.result]
    /\ UNCHANGED <<session_vars, request, outputs>>

\* masking_agent.unmask_text on the result analyze_and_mask returned.
RestoreResult ==
    /\ request.fn = "analyze_and_mask"
    /\ outcome.returned
    /\ outputs = <<>>
    /\ outputs' = <<unmask_text(outcome.result.masked_text,
                                outcome.result.mask_mapping)>>
    /\ UNCHANGED <<session_vars, request, outcome>>

\* masking_agent.unmask_text(request.text, request.mapping), then again on
\* the text it returned.
Unmask ==
    /\ request.fn = "unmask_text"
    /\ Len(outputs) < MaxApplications
    /\ outputs' = Append(outputs,
                     unmask_text(IF outputs = <<>> THEN request.text
                                 ELSE outputs[Len(outputs)],
                                 request.mapping))
    /\ UNCHANGED <<session_vars, request, outcome>>

\* reasoning_agent.process_and_respond(..., mask_mapping=request.mapping),
\* the reasoning model generating the answer request.text.
Respond ==
    /\ request.fn = "process_and_respond"
    /\ outputs = <<>>
    /\ LET out == process_and_respond(None, None, request.mapping,
                     [completed |-> TRUE, content |-> request.text])
       IN  outputs' = <<out.final_response>>
    /\ UNCHANGED <<session_vars, request, outcome>>

\* start_masking_workflow(request.text) in a fresh session.
StartMasking ==
    /\ request.fn = "start_masking_workflow"
    /\ handler = "start"
    /\ Commit(start_masking_workflow(Session, request.text, request.resp),
              "start_masking_workflow")

AgentNext ==
    \/ Analyze
    \/ StartMasking
    \/ RestoreResult
    \/ Unmask
    \/ Respond

AgentSpec == AgentInit /\ [][AgentNext]_vars

\* --------------------------------------------- two sessions of one process
SessionIds == {"A", "B"}

\* The session sid, and the agents of the process, as a handler finds them.
View(sid) ==
    IF sid = "A" THEN Session
    ELSE [other EXCEPT !.calls = <<>>, !.final_response = None,
                       !.notice = "none",
                       !.research_agent_model = research_model]

\* A handler of session sid leaves s.
Deliver(sid, s, name) ==
    /\ actor' = sid
    /\ UNCHANGED <<request, outcome, outputs, tasks>>
    /\ IF sid = "A"
       THEN CommitSession(s, name) /\ UNCHANGED other
       ELSE /\ other' = [s EXCEPT !.research_agent_model = OfProcess]
            /\ research_model' = s.research_agent_model
            /\ UNCHANGED <<workflow_state, pending_query, mask_mapping,
                           original_query, mode, detected_entities, buttons,
                           handler, calls, last_result, final_response,
                           notice>>

\* Both users are connected; neither has done anything.
SessionsInit ==
    /\ SessionStart
    /\ ProcessStart
    /\ request = NoRequest
    /\ outcome = NoOutcome
    /\ outputs = <<>>

\* The delegates answer; the users send one kind of message.
SessionsMessage ==
    \E sid \in SessionIds :
        Deliver(sid,
                handle_message(View(sid),
                    [content |-> <<"Hans", "fragt">>, elements |-> <<>>],
                    IF View(sid).mode = MODE_INTERNAL
                    THEN [completed |-> TRUE, content |-> <<"Antwort">>]
                    ELSE RespHans),
                "handle_message")

SessionsSettingsUpdate ==
    \E sid \in SessionIds, external_mode \in BOOLEAN,
       model \in ResearchModelValues :
        Deliver(sid, on_settings_update(View(sid), external_mode, model),
                "on_settings_update")

SessionsApprove ==
    \E sid \in SessionIds :
        /\ View(sid).buttons["approve"] > 0
        /\ Deliver(sid,
                   on_approve(View(sid),
                       [completed |-> TRUE,
                        content |-> <<"[PERSON_1]", "ist", "bekannt">>],
                       [completed |-> TRUE,
                        content |-> <<"[PERSON_1]", "schreibt">>]),
                   "on_approve")

SessionsEdit ==
    \E sid \in SessionIds :
        /\ View(sid).buttons["edit"] > 0
        /\ Deliver(sid, on_edit(View(sid)), "on_edit")

SessionsCancel ==
    \E sid \in SessionIds :
        /\ View(sid).buttons["cancel"] > 0
        /\ Deliver(sid, on_cancel(View(sid)), "on_cancel")

SessionsNext ==
    \/ SessionsMessage
    \/ SessionsSettingsUpdate
    \/ SessionsApprove
    \/ SessionsEdit
    \/ SessionsCancel

SessionsSpec == SessionsInit /\ [][SessionsNext]_vars

\* ------------------------------- the handlers of one session, interleaved
\* Most handlers of the session that wait at an await at the same time.
MaxTasks == 2

\* The queries the user sends, and what the detection model makes of them.
TaskQueries == { <<"Hans", "fragt">>, <<"Eva", "schreibt">> }

TaskAnswers(user_query) ==
    {RespFail,
     IF user_query = <<"Hans", "fragt">> THEN RespHans
     ELSE JsonResponse(Payload(<<"[PERSON_1]", "schreibt">>,
            <<Entity(<<"Eva">>, "[PERSON_1]", "PERSON", 95)>>, 92))}

\* A handler that waits: its name, the await it waits at, its local
\* variables, and the masking result that was the last when it began.
Task(fn, pc, user_query, seen) ==
    [fn |-> fn, pc |-> pc, user_query |-> user_query,
     masked_query |-> None, mask_mapping |-> <<>>, original_query |-> None,
     response |-> None, seen |-> seen]

\* The tasks without the i-th: it has returned.
Returned(i) ==
    SubSeq(tasks, 1, i - 1) \o SubSeq(tasks, i + 1, Len(tasks))

\* A handler of the session runs from one await to the next (or to its
\* end), leaving the session as s and the waiting handlers as ts.
Run(s, name, ts) ==
    /\ CommitSession(s, name)
    /\ tasks' = ts
    /\ UNCHANGED <<request, outcome, outputs, other, actor>>

\* on_settings_update: the user turns the external mode on.
TaskSettingsUpdate ==
    /\ mode = MODE_INTERNAL
    /\ \E model \in SelectedModels :
         Run(on_settings_update(Session, TRUE, model), "on_settings_update",
             tasks)

\* handle_message in external mode, lines 113-132, then
\* start_masking_workflow up to the await of line 202 and on to the one
\* of line 210.
TaskMessage ==
    /\ mode = MODE_EXTERNAL
    /\ Len(tasks) < MaxTasks
    /\ \E user_query \in TaskQueries :
         LET s0 == IF workflow_state # "idle"
                   THEN [Session EXCEPT !.workflow_state = "idle"]
                   ELSE Session
         IN  Run([s0 EXCEPT !.original_query = user_query], "handle_message",
                 Append(tasks, Task("handle_message", "masking", user_query,
                                    last_result)))

\* start_masking_workflow, lines 210-225: analyze_and_mask is back.
TaskMaskingReturns ==
    \E i \in DOMAIN tasks :
        /\ tasks[i].pc = "masking"
        /\ \E resp \in TaskAnswers(tasks[i].user_query) :
             LET out == analyze_and_mask(tasks[i].user_query, resp)
             IN  IF out.raised
                 THEN Run(masking_failed(Session, tasks[i].user_query),
                          "handle_message", Returned(i))
                 ELSE Run(store_result(
                            [Session EXCEPT !.last_result = out.result],
                            out.result),
                          "handle_message",
                          [tasks EXCEPT ![i].pc = "removing"])

\* start_masking_workflow, lines 227-275: the indicator is removed.
TaskShowsAnalysis ==
    \E i \in DOMAIN tasks :
        /\ tasks[i].pc = "removing"
        /\ Run(show_analysis(Session, tasks[i].user_query), "handle_message",
               [tasks EXCEPT ![i].pc = "summary"])

\* start_masking_workflow, lines 277-301: the summary is sent.
TaskAsksForApproval ==
    \E i \in DOMAIN tasks :
        /\ tasks[i].pc = "summary"
        /\ Run(ask_for_approval(Session), "handle_message", Returned(i))

\* on_approve, line 307: the button is clicked and removed.
TaskApprove ==
    /\ buttons["approve"] > 0
    /\ Len(tasks) < MaxTasks
    /\ Run([Session EXCEPT !.buttons = Remove(@, "approve")], "on_approve",
           Append(tasks, Task("on_approve", "removed", None, last_result)))

\* on_approve, lines 309-325: the session is read and research is called.
TaskApproveReads ==
    \E i \in DOMAIN tasks :
        /\ tasks[i].fn = "on_approve"
        /\ tasks[i].pc = "removed"
        /\ IF ~Truthy(pending_query)
           THEN Run(nothing_pending(Session), "on_approve", Returned(i))
           ELSE Run(Session, "on_approve",
                    [tasks EXCEPT ![i].pc = "research",
                                  ![i].masked_query = pending_query,
                                  ![i].mask_mapping = mask_mapping,
                                  ![i].original_query = original_query])

\* on_approve, lines 325-347: research is back.
TaskResearchReturns ==
    \E i \in DOMAIN tasks :
        /\ tasks[i].pc = "research"
        /\ \E resp \in ResearchResponses :
             LET r1 == research(tasks[i].masked_query, resp)
             IN  Run(Session, "on_approve",
                     IF r1.raised
                     THEN [tasks EXCEPT ![i].pc = "failed"]
                     ELSE [tasks EXCEPT ![i].pc = "reasoning",
                                        ![i].response = r1.response])

\* on_approve, lines 347-366: process_and_respond is back.
TaskReasoningReturns ==
    \E i \in DOMAIN tasks :
        /\ tasks[i].pc = "reasoning"
        /\ \E resp \in ReasoningResponses :
             LET r2 == process_and_respond(tasks[i].original_query,
                         tasks[i].response, tasks[i].mask_mapping, resp)
             IN  IF r2.raised
                 THEN Run(Session, "on_approve",
                          [tasks EXCEPT ![i].pc = "failed"])
                 ELSE Run([Session EXCEPT
                             !.final_response = r2.final_response],
                          "on_approve", [tasks EXCEPT ![i].pc = "final"])

\* on_approve, lines 330-332 and 356-358: the error message is sent.
TaskApproveFails ==
    \E i \in DOMAIN tasks :
        /\ tasks[i].pc = "failed"
        /\ Run([Session EXCEPT !.workflow_state = "idle"], "on_approve",
               Returned(i))

\* on_approve, lines 368-388: the final answer is sent.
TaskApproveResets ==
    \E i \in DOMAIN tasks :
        /\ tasks[i].pc = "final"
        /\ Run([Session EXCEPT
                  !.workflow_state = "idle",
                  !.pending_query = None,
                  !.buttons = Show(@, {"generate_requirements",
                                       "new_query"})],
               "on_approve", Returned(i))

\* on_cancel, line 415: the button is clicked and removed.
TaskCancel ==
    /\ buttons["cancel"] > 0
    /\ Len(tasks) < MaxTasks
    /\ Run([Session EXCEPT !.buttons = Remove(@, "cancel")], "on_cancel",
           Append(tasks, Task("on_cancel", "removed", None, last_result)))

\* on_cancel, lines 417-420.
TaskCancelResets ==
    \E i \in DOMAIN tasks :
        /\ tasks[i].fn = "on_cancel"
        /\ tasks[i].pc = "removed"
        /\ Run([Session EXCEPT !.workflow_state = "idle",
                               !.pending_query = None],
               "on_cancel", Returned(i))

TasksNext ==
    \/ TaskSettingsUpdate
    \/ TaskMessage
    \/ TaskMaskingReturns
    \/ TaskShowsAnalysis
    \/ TaskAsksForApproval
    \/ TaskApprove
    \/ TaskApproveReads
    \/ TaskResearchReturns
    \/ TaskReasoningReturns
    \/ TaskApproveFails
    \/ TaskApproveResets
    \/ TaskCancel
    \/ TaskCancelResets

TasksSpec == Init /\ [][TasksNext]_vars

\* ---------------------------------------------------------------- claims
\* The last handler called delegate fn.
Called(fn) == \E i \in DOMAIN calls : calls[i].fn = fn

\* The last handler called delegate fn and the call raised.
Raised(fn) == \E i \in DOMAIN calls : calls[i].fn = fn /\ calls[i].raised

\* A failure at masking, research or synthesis ended the last handler.
StepFailed ==
    Raised("analyze_and_mask") \/ Raised("research")
        \/ Raised("process_and_respond")

\* C1: after a failure at masking, research or synthesis, from whichever
\* entry point, the session's workflow_state is 'idle' when the failing
\* handler has returned.
C1_FailureResetsToIdle == StepFailed => workflow_state = "idle"

\* C2: after a failure at masking, research or synthesis the session's
\* pending_query is None; no masked query from before the failure stays.
C2_FailureClearsPending == StepFailed => pending_query = None

\* C3: a hard failure of analyze_and_mask leaves nothing to research but
\* the output of masking: the query an approve would send is still the
\* masked_text analyze_and_mask returned last (or none), and every research
\* call receives that masked_text, never a text masking did not return.
C3_ResearchGetsMaskedText ==
    /\ Raised("analyze_and_mask") =>
           pending_query \in {None, last_result.masked_text}
    /\ \A i \in DOMAIN calls :
           calls[i].fn = "research" =>
               /\ last_result # NoResult
               /\ calls[i].query = last_result.masked_text

\* C3 witness: analyze_and_mask has just failed for a query while an earlier
\* masked query is stored and its approve button is on display.
C3_Witness ==
    /\ Raised("analyze_and_mask")
    /\ pending_query # None
    /\ pending_query # original_query
    /\ buttons["approve"] > 0

\* C4: research is called only by the approve action and only while the
\* session is in 'awaiting_approval'; an approve in 'idle' or 'editing'
\* calls no research.
C4_ResearchOnlyWhenAwaiting ==
    [][Called("research")' =>
         handler' = "on_approve" /\ workflow_state = "awaiting_approval"]_vars

\* C5: approving a pending masked query calls research exactly once, with
\* the stored pending query, then synthesis at most once (once when
\* research succeeded, not at all when it failed), with the mask_mapping
\* of the masking result that produced the pending query.
C5_ApproveCallsInOrder ==
    [][handler' = "on_approve" /\ Truthy(pending_query) =>
         /\ Len(calls') \in {1, 2}
         /\ calls'[1].fn = "research"
         /\ calls'[1].query = pending_query
         /\ pending_query = last_result.masked_text
         /\ Len(calls') = (IF calls'[1].raised THEN 1 ELSE 2)
         /\ Len(calls') = 2 =>
              /\ calls'[2].fn = "process_and_respond"
              /\ calls'[2].mask_mapping = last_result.mask_mapping]_vars

\* C5 witness: an approve has called research and then synthesis with a
\* mapping that holds entries.
C5_Witness ==
    /\ handler = "on_approve"
    /\ Len(calls) = 2
    /\ calls[2].fn = "process_and_respond"
    /\ calls[2].mask_mapping # <<>>

\* C6: once a new top-level query has been received, pending_query and
\* mask_mapping hold the new query's result, or nothing when its masking
\* failed; the values of the earlier query are gone.
C6_NewQuerySupersedes ==
    Called("analyze_and_mask") =>
        IF Raised("analyze_and_mask")
        THEN pending_query = None /\ mask_mapping = <<>>
        ELSE /\ pending_query = last_result.masked_text
             /\ mask_mapping = last_result.mask_mapping

\* What C7 promises of a step that handles message m.
MessageIsMasked(m) ==
    /\ Len(calls') = 1
    /\ calls'[1].fn = "analyze_and_mask"
    /\ calls'[1].query = UserInput(m)
    /\ ~calls'[1].raised =>
         /\ workflow_state' = "awaiting_approval"
         /\ original_query' = UserInput(m)
         /\ last_result'.original_text = UserInput(m)
         /\ pending_query' = last_result'.masked_text
         /\ mask_mapping' = last_result'.mask_mapping

\* C7 as claimed: a new user message received in any workflow state runs
\* the masking engine on it and, when masking returns a result, ends in
\* 'awaiting_approval' with the message as original_query and the result's
\* masked_text and mapping stored.
C7_MessageStartsMasking ==
    [][\A m \in Messages : MessageStep(m) => MessageIsMasked(m)]_vars

\* C7 as amended: the same of a message received in external mode.
C7_ExternalMessageStartsMasking ==
    [][\A m \in Messages :
         MessageStep(m) /\ mode = MODE_EXTERNAL => MessageIsMasked(m)]_vars

\* C7 witness: a message has been masked and its result stored.
C7_Witness ==
    /\ handler = "handle_message"
    /\ Called("analyze_and_mask")
    /\ workflow_state = "awaiting_approval"
    /\ pending_query = last_result.masked_text
    /\ mask_mapping # <<>>

\* C8: cancel in 'awaiting_approval' leaves pending_query None and the
\* state 'idle' and calls no delegate; the next query whose masking succeeds
\* stores the pending_query and mask_mapping of its own result.
C8_CancelThenFreshQuery ==
    [][/\ handler' = "on_cancel" /\ workflow_state = "awaiting_approval" =>
            /\ pending_query' = None
            /\ workflow_state' = "idle"
            /\ calls' = <<>>
       /\ handler = "on_cancel" /\ Called("analyze_and_mask")'
             /\ ~Raised("analyze_and_mask")' =>
            /\ last_result'.original_text = original_query'
            /\ pending_query' = last_result'.masked_text
            /\ mask_mapping' = last_result'.mask_mapping]_vars

\* C8 witness: a cancel has discarded a pending query.
C8_Witness ==
    /\ handler = "on_cancel"
    /\ last_result # NoResult
    /\ pending_query = None
    /\ workflow_state = "idle"

\* C9: after cancel the session's mask_mapping holds none of the entries
\* of the cancelled query.
C9_CancelDiscardsMapping ==
    [][handler' = "on_cancel" =>
         \A i \in DOMAIN mask_mapping, j \in DOMAIN mask_mapping' :
             mask_mapping[i] # mask_mapping'[j]]_vars

\* What C10 promises of a step that handles the revised text m.
RevisedTextIsMasked(m) ==
    /\ Len(calls') = 1
    /\ calls'[1].fn = "analyze_and_mask"
    /\ calls'[1].query = UserInput(m)
    /\ ~calls'[1].raised =>
         /\ last_result'.original_text = UserInput(m)
         /\ mask_mapping' = last_result'.mask_mapping
         /\ workflow_state' = "awaiting_approval"

\* What C10 promises of the edit action.
EditKeepsPending ==
    handler' = "on_edit" /\ workflow_state = "awaiting_approval" =>
        /\ workflow_state' = "editing"
        /\ pending_query' = pending_query
        /\ mask_mapping' = mask_mapping

\* C10 as claimed: edit in 'awaiting_approval' moves to 'editing' and keeps
\* pending_query and mask_mapping; the next text received in 'editing' is
\* masked as a new query and, on success, mask_mapping is exactly the new
\* result's mapping and the state is 'awaiting_approval'.
C10_EditThenRevisedText ==
    [][/\ EditKeepsPending
       /\ \A m \in Messages :
            MessageStep(m) /\ workflow_state = "editing" =>
                RevisedTextIsMasked(m)]_vars

\* C10 as amended: the same, of a revised text received in external mode.
C10_EditThenRevisedTextExternal ==
    [][/\ EditKeepsPending
       /\ \A m \in Messages :
            MessageStep(m) /\ workflow_state = "editing"
                /\ mode = MODE_EXTERNAL =>
                RevisedTextIsMasked(m)]_vars

\* C10 witness: an edit has moved a session with a stored query and
\* mapping to 'editing'.
C10_Witness ==
    /\ handler = "on_edit"
    /\ workflow_state = "editing"
    /\ Truthy(pending_query)
    /\ mask_mapping # <<>>
    /\ mode = MODE_EXTERNAL

\* The last direct call was analyze_and_mask and it has run.
Analyzed == request.fn = "analyze_and_mask" /\ outcome # NoOutcome

\* C11: analyze_and_mask never raises for malformed upstream output: for
\* every response text the detection model returns once the call itself
\* completed, it returns a MaskingResult; it raises only when the upstream
\* call cannot be completed.
C11_NeverRaisesOnMalformed ==
    Analyzed =>
        /\ request.resp.completed => outcome.returned /\ ~outcome.raised
        /\ ~request.resp.completed => outcome.raised

\* C12: given a detection response that fails to parse, analyze_and_mask
\* does not raise and returns a MaskingResult whose confidence is at most
\* 0.7, whose original_text is the input and whose masked_text is the
\* salvaged masked_text field or, when none can be salvaged, the input.
C12_ParseFailureDegrades ==
    Analyzed /\ request.resp.completed /\ ~request.resp.json_ok =>
        /\ outcome.returned /\ ~outcome.raised
        /\ outcome.result.confidence <= 70
        /\ outcome.result.original_text = request.text
        /\ outcome.result.masked_text =
              (IF request.resp.salvage # None THEN request.resp.salvage
               ELSE request.text)

\* C12 witness: analyze_and_mask has returned a result salvaged from a
\* response that did not parse.
C12_Witness ==
    /\ Analyzed
    /\ request.resp.completed /\ ~request.resp.json_ok
    /\ outcome.returned
    /\ outcome.result.masked_text = request.resp.salvage
    /\ outcome.result.masked_text # request.text

\* The sentinel originals the recovery path synthesizes.
Sentinels == { p.sentinel : p \in PlaceholderTable }

\* C13: sentinel originals synthesized on the recovery path are never
\* unmasked as if they were real values: no final answer an approve sends
\* holds a sentinel string such as '<person_1>' in place of a placeholder.
C13_SentinelNeverUnmasked ==
    final_response # None =>
        \A i \in DOMAIN final_response : final_response[i] \notin Sentinels

\* The entities a result lists, over all categories.
ListedEntities(r) ==
    UNION { { r.detected_entities[c][2][j] :
                j \in DOMAIN r.detected_entities[c][2] } :
            c \in DOMAIN r.detected_entities }

\* C14: in every MaskingResult analyze_and_mask returns (success path and
\* recovery path) every key of mask_mapping matches the placeholder grammar,
\* and a placeholder listed in detected_entities has the original the
\* mapping gives it: no two distinct originals share a placeholder.
C14_MappingWellFormed ==
    Analyzed /\ outcome.returned =>
        /\ \A i \in DOMAIN outcome.result.mask_mapping :
               IsPlaceholder(outcome.result.mask_mapping[i][1])
        /\ \A e \in ListedEntities(outcome.result) :
               DictGet(outcome.result.mask_mapping, e.masked, None)
                   = e.original

\* value occurs in text (a substring of it).
Occurs(value, text) ==
    \E i \in 1..Len(text) :
        /\ i + Len(value) - 1 <= Len(text)
        /\ SubSeq(text, i, i + Len(value) - 1) = value

\* Every entity the result lists is a value found in the text.
EntitiesFromText ==
    \A e \in ListedEntities(outcome.result) :
        Occurs(e.original, request.text)

\* C15: within one masking operation identical original values map to one
\* placeholder: no two keys of the result's mask_mapping stand for the same
\* original, and detected_entities[category] lists each original once, also
\* when the detection payload lists it more than once.
C15_OnePlaceholderPerOriginal ==
    Analyzed /\ outcome.returned /\ EntitiesFromText =>
        /\ \A i, j \in DOMAIN outcome.result.mask_mapping :
               i # j => outcome.result.mask_mapping[i][2]
                          # outcome.result.mask_mapping[j][2]
        /\ \A c \in DOMAIN outcome.result.detected_entities :
               \A j, k \in DOMAIN outcome.result.detected_entities[c][2] :
                   j # k =>
                       outcome.result.detected_entities[c][2][j].original
                         # outcome.result.detected_entities[c][2][k].original

\* C16: round trip: for every MaskingResult analyze_and_mask produces
\* without taking a recovery or degradation path,
\* unmask_text(result.masked_text, result.mask_mapping) is
\* result.original_text.
C16_RoundTrip ==
    Analyzed /\ outcome.returned /\ request.resp.json_ok /\ outputs # <<>> =>
        outputs[1] = outcome.result.original_text

\* C17: unmask_text is idempotent and a no-op on an empty mapping: for
\* every text t and mapping m, unmask_text(unmask_text(t, m), m) is
\* unmask_text(t, m), and unmask_text(t, {}) is t.
C17_UnmaskIdempotent ==
    request.fn = "unmask_text" =>
        /\ Len(outputs) >= 2 => outputs[2] = outputs[1]
        /\ request.mapping = <<>> /\ outputs # <<>> =>
               outputs[1] = request.text

\* The dicts that hold the entries of m in some order.
Reorderings(m) ==
    { [i \in 1..Len(m) |-> m[p[i]]] : p \in Permutations(1..Len(m)) }

\* C18: the result of unmask_text does not depend on the order in which the
\* mapping's keys are processed: for every mapping analyze_and_mask
\* produces, restoring the masked text gives the same output in every order
\* of the keys.
C18_UnmaskOrderIndependent ==
    Analyzed /\ outcome.returned /\ outputs # <<>> =>
        \A m \in Reorderings(outcome.result.mask_mapping) :
            unmask_text(outcome.result.masked_text, m) = outputs[1]

\* The tokens of a text.
Tokens(text) == { text[i] : i \in DOMAIN text }

\* C19: no orphan placeholders: every placeholder-shaped token in the
\* output of unmask_text that was not in the input text is a key of the
\* mapping.
C19_NoOrphanPlaceholders ==
    request.fn = "unmask_text" /\ outputs # <<>> =>
        \A tok \in Tokens(outputs[1]) \ Tokens(request.text) :
            IsPlaceholder(tok) => DictHas(request.mapping, tok)

\* The last direct call was process_and_respond with a mapping that holds
\* entries, and it has returned.
Responded ==
    /\ request.fn = "process_and_respond"
    /\ request.mapping # <<>>
    /\ outputs # <<>>

\* C20 as claimed: when process_and_respond is given a non-empty mapping,
\* the returned final_response holds no placeholder that the generated
\* answer held, and in particular no key of the mapping.
C20_AnswerFullyRestored ==
    Responded =>
        \A tok \in Tokens(outputs[1]) :
            /\ IsPlaceholder(tok) => tok \notin Tokens(request.text)
            /\ ~DictHas(request.mapping, tok)

\* C20 as amended: every key of the mapping that the generated answer holds
\* is replaced, so final_response holds a key only where a value of the
\* mapping holds it; what is no key of the mapping, a placeholder the
\* mapping does not know included, stays in final_response.
C20_AnswerKeysRestored ==
    Responded =>
        /\ \A tok \in Tokens(outputs[1]) :
               DictHas(request.mapping, tok) =>
                   \E i \in DOMAIN request.mapping :
                       tok \in Tokens(request.mapping[i][2])
        /\ \A tok \in Tokens(request.text) :
               ~DictHas(request.mapping, tok) => tok \in Tokens(outputs[1])

\* C20 witness: process_and_respond has restored a key of the mapping and
\* left a placeholder the mapping does not know.
C20_Witness ==
    /\ Responded
    /\ \E tok \in Tokens(request.text) :
           DictHas(request.mapping, tok) /\ tok \notin Tokens(outputs[1])
    /\ \E tok \in Tokens(request.text) :
           /\ IsPlaceholder(tok) /\ ~DictHas(request.mapping, tok)
           /\ tok \in Tokens(outputs[1])

\* The last direct call was analyze_and_mask, the response did not parse
\* and a masked_text field was extracted from it.
Recovered ==
    /\ Analyzed
    /\ request.resp.completed /\ ~request.resp.json_ok
    /\ request.resp.salvage # None

\* The entries of category c in the result's detected_entities.
EntriesOf(r, c) == DictGet(r.detected_entities, c, <<>>)

\* C24: on the recovery path the result's masked_text is the extracted
\* text and its confidence 0.7; every distinct placeholder-shaped token of
\* the extracted text has exactly one entity under its category, with
\* confidence 0.8 and the sentinel original, no other entity is listed, and
\* the keys of mask_mapping are the distinct placeholder tokens found.
C24_RecoveryResult ==
    Recovered =>
        /\ outcome.returned
        /\ outcome.result.masked_text = request.resp.salvage
        /\ outcome.result.confidence = 70
        /\ \A p \in PlaceholderTable :
               LET entries == EntriesOf(outcome.result, p.category)
                   at == { i \in DOMAIN entries : entries[i].masked = p.token }
               IN  IF p.token \in Tokens(request.resp.salvage)
                   THEN /\ Cardinality(at) = 1
                        /\ \A i \in at :
                              /\ entries[i].confidence = 80
                              /\ entries[i].original = <<p.sentinel>>
                   ELSE at = {}
        /\ \A e \in ListedEntities(outcome.result) : IsPlaceholder(e.masked)
        /\ { outcome.result.mask_mapping[i][1] :
               i \in DOMAIN outcome.result.mask_mapping }
             = { tok \in Tokens(request.resp.salvage) : IsPlaceholder(tok) }

\* C24 witness: a result recovered from an extracted text that holds one
\* placeholder twice and another once.
C24_Witness ==
    /\ Recovered
    /\ outcome.returned
    /\ Len(outcome.result.mask_mapping) = 2
    /\ Len(FindPlaceholders(request.resp.salvage)) = 3

\* The last direct call was analyze_and_mask, the response did not parse
\* and no masked_text field could be extracted from it.
Unrecovered ==
    /\ Analyzed
    /\ request.resp.completed /\ ~request.resp.json_ok
    /\ request.resp.salvage = None

\* C25: when the response does not parse and no masked_text field can be
\* extracted, analyze_and_mask returns masked_text equal to the unmodified
\* input, an empty mask_mapping, empty detected_entities and confidence 0.0.
C25_FallbackResult ==
    Unrecovered =>
        /\ outcome.returned
        /\ outcome.result.original_text = request.text
        /\ outcome.result.masked_text = request.text
        /\ outcome.result.mask_mapping = <<>>
        /\ outcome.result.detected_entities = <<>>
        /\ outcome.result.confidence = 0

\* C25 witness: analyze_and_mask has returned for a response that is no
\* JSON and holds no masked_text field.
C25_Witness ==
    /\ Unrecovered
    /\ outcome.returned
    /\ outcome.result.masked_text = <<"Hans", "fragt", "Eva">>

\* The detection payload of the last direct call is well formed: an object
\* with a masked_text whose entities are complete, carry well-formed
\* placeholders and give each placeholder one original.
WellFormedPayload ==
    /\ request.fn = "analyze_and_mask"
    /\ request.resp.completed /\ request.resp.json_ok
    /\ request.resp.data.is_object
    /\ request.resp.data.masked_text # None
    /\ \A i \in DOMAIN request.resp.data.entities :
           /\ request.resp.data.entities[i].complete
           /\ IsPlaceholder(request.resp.data.entities[i].masked)
    /\ \A i, j \in DOMAIN request.resp.data.entities :
           request.resp.data.entities[i].masked
               = request.resp.data.entities[j].masked
           => request.resp.data.entities[i].original
                  = request.resp.data.entities[j].original

\* The entities of category c in the payload, in the payload's order.
PayloadEntitiesOf(c) ==
    SelectSeq(request.resp.data.entities, LAMBDA e : e.category = c)

\* C26: for a well-formed detection payload analyze_and_mask returns the
\* payload's masked_text, a mask_mapping that holds exactly e.masked ->
\* e.original for each payload entity, and detected_entities that groups
\* the entities by category, in each category in the payload's order.
C26_SuccessResult ==
    Analyzed /\ WellFormedPayload =>
        /\ outcome.returned
        /\ outcome.result.masked_text = request.resp.data.masked_text
        /\ { outcome.result.mask_mapping[i] :
               i \in DOMAIN outcome.result.mask_mapping }
             = { <<request.resp.data.entities[i].masked,
                   request.resp.data.entities[i].original>> :
                 i \in DOMAIN request.resp.data.entities }
        /\ \A i, j \in DOMAIN outcome.result.mask_mapping :
               i # j => outcome.result.mask_mapping[i][1]
                          # outcome.result.mask_mapping[j][1]
        /\ \A i \in DOMAIN outcome.result.detected_entities :
               PayloadEntitiesOf(outcome.result.detected_entities[i][1])
                   # <<>>
        /\ \A c \in {"PERSON", "EMAIL"} :
               LET entries == EntriesOf(outcome.result, c)
                   listed == PayloadEntitiesOf(c)
               IN  /\ Len(entries) = Len(listed)
                   /\ \A i \in DOMAIN entries :
                          /\ entries[i].original = listed[i].original
                          /\ entries[i].masked = listed[i].masked

\* C26 witness: the result of a well-formed payload that lists two
\* different entities of one category.
C26_Witness ==
    /\ Analyzed /\ WellFormedPayload
    /\ outcome.returned
    /\ Len(EntriesOf(outcome.result, "PERSON")) = 2
    /\ Len(outcome.result.mask_mapping) = 2

\* The last direct call was start_masking_workflow and masking returned a
\* result with no detected entity.
NothingDetected ==
    /\ request.fn = "start_masking_workflow"
    /\ handler = "start_masking_workflow"
    /\ ~Raised("analyze_and_mask")
    /\ last_result.detected_entities = <<>>

\* C27: when masking returns a result with zero detected entities, the
\* workflow issues the manual-review warning if and only if the raw query
\* is longer than 500 characters (exactly 500: no warning); in both cases
\* the session then is in 'awaiting_approval'.
C27_LongQueryWarning ==
    NothingDetected =>
        /\ notice \in {"warning", "none_found"}
        /\ notice = "warning" <=> CharLen(request.text) > 500
        /\ workflow_state = "awaiting_approval"

\* C27 witness: a query of exactly 500 characters in which nothing was
\* detected has been passed on without the warning.
C27_Witness ==
    /\ NothingDetected
    /\ CharLen(request.text) = 500
    /\ notice = "none_found"
    /\ workflow_state = "awaiting_approval"

C29_SynthesisGetsOwnQuery ==
    [][handler' = "on_approve" =>
         \A i \in DOMAIN calls' :
             calls'[i].fn = "process_and_respond" =>
                 calls'[i].query = last_result.original_text]_vars

\* The payload whose text request.raw is, bare or in a fence.
IsWrappedPayload(masked) == request.raw \in Wrappings(masked)

\* C30: when the text of the detection model is a valid JSON payload, bare
\* or wrapped in a fence (with or without the json tag), analyze_and_mask
\* returns the MaskingResult of that payload, also when the payload's
\* masked_text itself holds fences.
C30_FenceStrippingKeepsPayload ==
    \A masked \in RawMaskedTexts :
        (Analyzed /\ IsWrappedPayload(masked)) =>
            /\ outcome.returned
            /\ outcome.result =
                  analyze_and_mask(request.text,
                      JsonResponse(Payload(masked, TailEntities,
                                           TailConfidence))).result

\* The same for payloads whose masked_text holds no fence (this holds).
PlainPayloadKept ==
    \A masked \in RawMaskedTexts :
        (Analyzed /\ IsWrappedPayload(masked)
           /\ \A i \in DOMAIN masked : masked[i] # Fence) =>
            /\ outcome.returned
            /\ outcome.result =
                  analyze_and_mask(request.text,
                      JsonResponse(Payload(masked, TailEntities,
                                           TailConfidence))).result

\* C22: whenever approve is taken in state awaiting_approval, the session
\* is idle once the handler is through (every delegate call of the handler
\* has returned or failed by then), for every stored masked text, an empty
\* one included.
C22_ApproveAlwaysResets ==
    [][(handler' = "on_approve" /\ workflow_state = "awaiting_approval") =>
         workflow_state' = "idle"]_vars

\* The same for a stored masked text that is not empty (this holds).
ApproveOfTextResets ==
    [][(handler' = "on_approve" /\ workflow_state = "awaiting_approval"
          /\ pending_query \notin {None, <<>>}) =>
         workflow_state' = "idle"]_vars

\* What the handlers of session sid read: its session state and the model
\* its research calls are made with.
StateOf(sid) ==
    [workflow_state |-> View(sid).workflow_state,
     pending_query |-> View(sid).pending_query,
     mask_mapping |-> View(sid).mask_mapping,
     original_query |-> View(sid).original_query,
     mode |-> View(sid).mode,
     detected_entities |-> View(sid).detected_entities,
     research_agent_model |-> View(sid).research_agent_model]

\* C21: no event handled in one session changes the session state of the
\* other session or the model the other session's research calls are made
\* with.
C21_SessionsIndependent ==
    [][\A sid \in SessionIds :
         actor' # sid => StateOf(sid)' = StateOf(sid)]_vars

\* The same for the session state alone (this holds).
SessionStateIndependent ==
    [][\A sid \in SessionIds :
         actor' # sid =>
            [StateOf(sid) EXCEPT !.research_agent_model = OfProcess]' =
            [StateOf(sid) EXCEPT !.research_agent_model = OfProcess]]_vars

\* In state awaiting_approval the pending query is the masked text of the
\* most recent masking result.
PendingIsLatest ==
    workflow_state = "awaiting_approval" =>
        pending_query = last_result.masked_text

\* A handler that clears the pending query began after the masking result
\* that is the last one now.
ClearsOwnQuery ==
    \A i \in DOMAIN tasks :
        (/\ tasks' = Returned(i)
         /\ tasks[i].fn \in {"on_approve", "on_cancel"}
         /\ pending_query' = None
         /\ pending_query # None) =>
            tasks[i].seen = last_result

\* C23: when handlers of the same session interleave at their awaits, in
\* every reachable state workflow_state = 'awaiting_approval' implies that
\* pending_query is the masked text of the most recent masking result, and
\* a completing approve or cancel never clears the pending query of a
\* newer query.
C23_ConsistentUnderInterleaving ==
    []PendingIsLatest /\ [][ClearsOwnQuery]_vars

\* C31: an approve taken when no pending query is stored (pending_query is
\* None or empty) reports an error, calls neither the research nor the
\* synthesis delegate, and leaves workflow_state, pending_query,
\* mask_mapping and original_query unchanged.
C31_ApproveWithoutPending ==
    [][(handler' = "on_approve" /\ ~Truthy(pending_query)) =>
         /\ notice' = "no_pending"
         /\ calls' = <<>>
         /\ UNCHANGED <<workflow_state, pending_query, mask_mapping,
                        original_query>>]_vars

\* An approve was taken with nothing pending, both with None (in state
\* idle) and with an empty masked text (in state awaiting_approval).
C31_Witness ==
    /\ handler = "on_approve"
    /\ notice = "no_pending"
    /\ pending_query = <<>>
    /\ workflow_state = "awaiting_approval"

\* The same with pending_query None.
C31_WitnessNone ==
    /\ handler = "on_approve"
    /\ notice = "no_pending"
    /\ pending_query = None

====
